---------------------------- MODULE Spec2Model ----------------------------
(***************************************************************************)
(* Model of src/bot.py, the GroupManagerBot: the dispatcher that routes an *)
(* inbound update to one handler, the permission gate of the six           *)
(* privileged commands with the remote calls they issue, and the counter   *)
(* store (tables group_stats and user_activity) kept by track_activity.    *)
(*                                                                         *)
(* One update is handled at a time (the application processes updates      *)
(* sequentially), so every handler is one action.  The answers of the      *)
(* platform to the remote calls of one invocation are inputs of the        *)
(* action (resp); the calls the handler issued, in order and with their    *)
(* outcomes, are recorded in calls.                                        *)
(***************************************************************************)
EXTENDS Integers, Sequences, FiniteSets

VARIABLES
    db,        \* the SQLite file: [tables, group_stats, user_activity]
    now,       \* the wall clock, in ticks
    update,    \* the update handled last
    handler,   \* the callback that handled it
    calls,     \* the remote calls of that invocation, in order
    sent       \* history: messages handed to the tracker per user, group, day

vars == <<db, now, update, handler, calls, sent>>

----------------------------------------------------------------------------
(* Bounds *)

\* The largest clock value.
MaxClock == 3
\* Clock ticks per calendar day.
TicksPerDay == 2
\* The number of group messages the tracker counts in one run.
MaxMsgs == 3

----------------------------------------------------------------------------
(* The platform's vocabulary *)

Users == {"u1", "u2"}
Chats == {"g1", "g2", "p1"}
NoReply == "no_reply"
Err == "TelegramError"
Ok == "ok"

ChatType(c) == CASE c = "g1" -> "group" [] c = "g2" -> "supergroup" [] OTHER -> "private"

Groups == {c \in Chats : ChatType(c) # "private"}

MemberStatus == {"creator", "administrator", "member"}

Commands == {"start", "stats", "lock", "unlock", "mute", "unmute", "ban", "kick", "help"}

PlainMessage == "none"

TargetCommands == {"mute", "unmute", "ban", "kick"}

ArgKinds == {"none", "@username", "other"}

\* The platform's answers within one invocation: the caller's and the bot's
\* member status (or an error), whether the first and the second remote call
\* of the try block succeed, and whether the success reply of the try block
\* does.  Every other reply is the last thing its handler does, whether it
\* raises or not, so its outcome is not an input.
Responses ==
    [caller : MemberStatus \cup {Err}, bot : MemberStatus \cup {Err},
     call1 : BOOLEAN, call2 : BOOLEAN, reply : BOOLEAN]

\* The answers a handler without permission checks can see.
OpenResponses == {r \in Responses : r.caller = "member" /\ r.bot = "member"}

Outcome(ok) == IF ok THEN Ok ELSE Err

Call(api, target, result, data) ==
    [api |-> api, target |-> target, result |-> result, text |-> "", data |-> data]

\* A reply the handler ends with.
Reply(text) ==
    [api |-> "reply_text", target |-> "chat", result |-> Ok, text |-> text, data |-> <<>>]

\* The success reply of a try block, which may raise into the except clause.
TryReply(text, data, ok) ==
    [api |-> "reply_text", target |-> "chat", result |-> Outcome(ok),
     text |-> text, data |-> data]

----------------------------------------------------------------------------
(* The reply texts *)

OnlyAdmins == "Only admins can use this command!"

Text ==
    [ lock_group |->
        [ need |-> "I need admin privileges to lock the group!",
          ok   |-> "Group has been locked! Only admins can send messages.",
          fail |-> "Failed to lock group: {str(e)}",
          usage |-> "" ],
      unlock_group |->
        [ need |-> "I need admin privileges to unlock the group!",
          ok   |-> "Group has been unlocked! Everyone can send messages.",
          fail |-> "Failed to unlock group: {str(e)}",
          usage |-> "" ],
      mute_user |->
        [ need |-> "I need admin privileges to mute users!",
          ok   |-> "User {first_name} has been muted for 1 hour.",
          fail |-> "Failed to mute user: {str(e)}",
          usage |-> "Please reply to a message from the user you want to mute or use @username" ],
      unmute_user |->
        [ need |-> "I need admin privileges to unmute users!",
          ok   |-> "User {first_name} has been unmuted.",
          fail |-> "Failed to unmute user: {str(e)}",
          usage |-> "Please reply to a message from the user you want to unmute" ],
      ban_user |->
        [ need |-> "I need admin privileges to ban users!",
          ok   |-> "User {first_name} has been banned from the group.",
          fail |-> "Failed to ban user: {str(e)}",
          usage |-> "Please reply to a message from the user you want to ban" ],
      kick_user |->
        [ need |-> "I need admin privileges to kick users!",
          ok   |-> "User {first_name} has been kicked from the group.",
          fail |-> "Failed to kick user: {str(e)}",
          usage |-> "Please reply to a message from the user you want to kick" ] ]

MuteByNameText == "Please reply to a message or provide user ID"
StartText == "Group Manager Bot is now active!"
HelpText == "Group Manager Bot Commands"
StatsPrivateText == "This command only works in groups!"
StatsText == "Group Statistics for {chat.title}"
StatsErrorText == "Error getting statistics: {str(e)}"


----------------------------------------------------------------------------
(* The dispatcher *)

\* setup_handlers: the handlers in registration order, all in the default
\* group.  A command handler accepts the message that is its command; the
\* message handler registered with filters.ALL accepts every message.
HandlerTable ==
    << [filter |-> "start",  callback |-> "start_command"],
       [filter |-> "stats",  callback |-> "stats_command"],
       [filter |-> "lock",   callback |-> "lock_group"],
       [filter |-> "unlock", callback |-> "unlock_group"],
       [filter |-> "mute",   callback |-> "mute_user"],
       [filter |-> "unmute", callback |-> "unmute_user"],
       [filter |-> "ban",    callback |-> "ban_user"],
       [filter |-> "kick",   callback |-> "kick_user"],
       [filter |-> "help",   callback |-> "help_command"],
       [filter |-> "ALL",    callback |-> "track_activity"] >>

Accepts(entry, upd) == entry.filter = "ALL" \/ entry.filter = upd.command

\* Within one handler group the application runs the first handler, in
\* registration order, that accepts the update, and only that one.
Route(upd) ==
    LET matching == {i \in 1..Len(HandlerTable) : Accepts(HandlerTable[i], upd)}
        first == CHOOSE i \in matching : \A j \in matching : i <= j
    IN  HandlerTable[first].callback

\* The updates the gateway delivers: a plain message or one of the commands,
\* sent by a user in a chat, possibly as a reply to a message of reply_to,
\* with the shape of the first command argument.
Updates ==
    { u \in [chat : Chats, user : Users, command : Commands \cup {PlainMessage},
             reply_to : Users \cup {NoReply}, args : ArgKinds] :
        /\ u.command \notin TargetCommands => u.reply_to = NoReply
        /\ u.command # "mute" => u.args = "none" }

UpdatesOf(h) == {u \in Updates : Route(u) = h}

----------------------------------------------------------------------------
(* The permission gate *)

\* Variant of is_admin: any status the platform returns passes.
is_admin_AnyMember(resp) == resp.caller # Err

\* Variant of is_admin: a lookup that raises passes.
is_admin_ErrorPasses(resp) == resp.caller \in {"administrator", "creator", Err}

\* is_admin: the caller's status is looked up; an error counts as not admin.
is_admin(resp) == resp.caller \in {"administrator", "creator"}

\* Variant of is_bot_admin: the bot passes with any status.
is_bot_admin_AnyMember(resp) == resp.bot # Err

\* is_bot_admin: the bot's own status is looked up; an error counts as not admin.
is_bot_admin(resp) == resp.bot = "administrator"

CallerLookup(upd, resp) == Call("get_chat_member", upd.user, resp.caller, <<>>)

BotLookup(resp) == Call("get_chat_member", "bot", resp.bot, <<>>)

\* The two checks every privileged handler opens with; body is what the
\* handler goes on to do once both have passed.
Gate(h, upd, resp, body) ==
    IF ~is_admin(resp)
    THEN << CallerLookup(upd, resp), Reply(OnlyAdmins) >>
    ELSE IF ~is_bot_admin(resp)
    THEN << CallerLookup(upd, resp), BotLookup(resp),
            Reply(Text[h].need) >>
    ELSE << CallerLookup(upd, resp), BotLookup(resp) >> \o body

\* Variant of TryBlock: the attempt that raised is made once more before the
\* failure reply.
TryBlock_Retry(attempts, okText, okData, failText, resp) ==
    LET failed == {i \in 1..Len(attempts) : attempts[i].result = Err}
        first == CHOOSE i \in failed : \A j \in failed : i <= j
    IN  IF failed # {}
        THEN SubSeq(attempts, 1, first) \o << attempts[first], Reply(failText) >>
        ELSE attempts \o << TryReply(okText, okData, resp.reply) >>
             \o (IF resp.reply THEN << >> ELSE << Reply(failText) >>)

\* try: the attempts in order, then the success reply; except TelegramError:
\* the failure reply.  The first attempt that raises ends the block, and so
\* does a success reply that raises.
TryBlock(attempts, okText, okData, failText, resp) ==
    LET failed == {i \in 1..Len(attempts) : attempts[i].result = Err}
        first == CHOOSE i \in failed : \A j \in failed : i <= j
    IN  IF failed # {}
        THEN SubSeq(attempts, 1, first) \o << Reply(failText) >>
        ELSE attempts \o << TryReply(okText, okData, resp.reply) >>
             \o (IF resp.reply THEN << >> ELSE << Reply(failText) >>)

----------------------------------------------------------------------------
(* The command handlers: each yields the calls it issues, in order *)

start_command(upd, resp) == << Reply(StartText) >>

help_command(upd, resp) == << Reply(HelpText) >>

lock_group(upd, resp) ==
    Gate("lock_group", upd, resp,
         TryBlock(<< Call("set_chat_permissions", upd.chat, Outcome(resp.call1), <<FALSE>>) >>,
                  Text.lock_group.ok, <<>>, Text.lock_group.fail, resp))

unlock_group(upd, resp) ==
    Gate("unlock_group", upd, resp,
         TryBlock(<< Call("set_chat_permissions", upd.chat, Outcome(resp.call1), <<TRUE>>) >>,
                  Text.unlock_group.ok, <<>>, Text.unlock_group.fail, resp))

mute_user(upd, resp) ==
    Gate("mute_user", upd, resp,
         IF upd.reply_to # NoReply
         THEN TryBlock(<< Call("restrict_chat_member", upd.reply_to,
                               Outcome(resp.call1), <<FALSE>>) >>,
                       Text.mute_user.ok, <<>>, Text.mute_user.fail, resp)
         ELSE IF upd.args = "@username"
         THEN << Reply(MuteByNameText) >>
         ELSE << Reply(Text.mute_user.usage) >>)

unmute_user(upd, resp) ==
    Gate("unmute_user", upd, resp,
         IF upd.reply_to # NoReply
         THEN TryBlock(<< Call("restrict_chat_member", upd.reply_to,
                               Outcome(resp.call1), <<TRUE>>) >>,
                       Text.unmute_user.ok, <<>>, Text.unmute_user.fail, resp)
         ELSE << Reply(Text.unmute_user.usage) >>)

ban_user(upd, resp) ==
    Gate("ban_user", upd, resp,
         IF upd.reply_to # NoReply
         THEN TryBlock(<< Call("ban_chat_member", upd.reply_to, Outcome(resp.call1), <<>>) >>,
                       Text.ban_user.ok, <<>>, Text.ban_user.fail, resp)
         ELSE << Reply(Text.ban_user.usage) >>)

\* Variant of KickCalls: the unban is issued before the ban.
KickCalls_UnbanFirst(upd, resp) ==
    << Call("unban_chat_member", upd.reply_to, Outcome(resp.call1), <<>>),
       Call("ban_chat_member", upd.reply_to, Outcome(resp.call2), <<>>) >>

KickCalls(upd, resp) ==
    << Call("ban_chat_member", upd.reply_to, Outcome(resp.call1), <<>>),
       Call("unban_chat_member", upd.reply_to, Outcome(resp.call2), <<>>) >>

kick_user(upd, resp) ==
    Gate("kick_user", upd, resp,
         IF upd.reply_to # NoReply
         THEN TryBlock(KickCalls(upd, resp),
                       Text.kick_user.ok, <<>>, Text.kick_user.fail, resp)
         ELSE << Reply(Text.kick_user.usage) >>)

----------------------------------------------------------------------------
(* The platform's side of a ban and an unban *)

RECURSIVE ApplyCalls(_, _, _)
\* The banned set after the calls of one invocation in chat: a ban that
\* succeeded adds its target, an unban that succeeded removes it.
ApplyCalls(b, chat, trace) ==
    IF trace = << >> THEN b
    ELSE LET c == Head(trace)
             b1 == IF c.result # Ok THEN b
                   ELSE IF c.api = "ban_chat_member" THEN b \cup {<<chat, c.target>>}
                   ELSE IF c.api = "unban_chat_member" THEN b \ {<<chat, c.target>>}
                   ELSE b
         IN  ApplyCalls(b1, chat, Tail(trace))

----------------------------------------------------------------------------
(* The counter store *)

\* SQL NULL, and a non-NULL value v, of a nullable column or expression.
NULL == << >>

Value(v) == << v >>

\* COALESCE(x, d): the integer in x unless x is NULL, and then d.
COALESCE(x, d) == IF x = NULL THEN d ELSE x[1]

\* A scalar subquery: NULL when no row qualifies, else the selected value.
ScalarSubquery(values) ==
    IF values = {} THEN NULL ELSE Value(CHOOSE v \in values : TRUE)

\* The primary keys of the two tables.
UserKey == <<"user_id", "group_id">>

GroupKey == <<"group_id", "date">>

\* The values of a row in the columns of a key.
KeyOf(r, pk) == [i \in DOMAIN pk |-> r[pk[i]]]

\* INSERT OR REPLACE: the rows that conflict with the new row on the
\* primary key are deleted, then the new row is inserted.
InsertOrReplace(table, row, pk) ==
    {r \in table : KeyOf(r, pk) # KeyOf(row, pk)} \cup {row}

\* Variant of CreateTableIfNotExists: the table is created anew.
CreateTable_Recreate(d, t) == [d EXCEPT !.tables = @ \cup {t}, ![t] = {}]

\* CREATE TABLE IF NOT EXISTS: an existing table is left as it is.
CreateTableIfNotExists(d, t) ==
    IF t \in d.tables THEN d
    ELSE [d EXCEPT !.tables = @ \cup {t}, ![t] = {}]

init_database(d) ==
    CreateTableIfNotExists(CreateTableIfNotExists(d, "group_stats"), "user_activity")

\* strftime('%Y-%m-%d') of the clock: the calendar day, the time of day dropped.
StrfDate(t) == t \div TicksPerDay

Days == {StrfDate(t) : t \in 0..MaxClock}

\* COALESCE((SELECT message_count FROM user_activity WHERE ...), 0) + 1
NewUserCount(d, user, chat) ==
    COALESCE(ScalarSubquery({r.message_count : r \in
                 {q \in d.user_activity : q.user_id = user /\ q.group_id = chat}}), 0) + 1

\* Variant of NewGroupCount: the stored count is not read back.
NewGroupCount_NoRead(d, chat, today) == 1

\* COALESCE((SELECT messages_count FROM group_stats WHERE ...), 0) + 1
NewGroupCount(d, chat, today) ==
    COALESCE(ScalarSubquery({r.messages_count : r \in
                 {q \in d.group_stats : q.group_id = chat /\ q.date = today}}), 0) + 1

\* (SELECT COALESCE(member_count, 0) FROM group_stats WHERE ...)
NewMemberCount(d, chat, today) ==
    ScalarSubquery({COALESCE(r.member_count, 0) : r \in
                 {q \in d.group_stats : q.group_id = chat /\ q.date = today}})

\* Variant of UpsertUser: a plain INSERT, the row in conflict is kept.
UpsertUser_PlainInsert(d, user, chat, today) ==
    [d EXCEPT !.user_activity =
        @ \cup {[user_id |-> user, group_id |-> chat,
                 username |-> user, first_name |-> user,
                 last_message |-> today,
                 message_count |-> NewUserCount(d, user, chat)]}]

UpsertUser(d, user, chat, today) ==
    [d EXCEPT !.user_activity =
        InsertOrReplace(@, [user_id |-> user, group_id |-> chat,
                            username |-> user, first_name |-> user,
                            last_message |-> today,
                            message_count |-> NewUserCount(d, user, chat)],
                        UserKey)]

UpsertGroup(d, chat, today) ==
    [d EXCEPT !.group_stats =
        InsertOrReplace(@, [group_id |-> chat, date |-> today,
                            member_count |-> NewMemberCount(d, chat, today),
                            messages_count |-> NewGroupCount(d, chat, today)],
                        GroupKey)]

\* track_activity: nothing for a private chat; else both upserts, one commit.
track_activity(d, upd, t) ==
    IF ChatType(upd.chat) = "private" THEN d
    ELSE UpsertGroup(UpsertUser(d, upd.user, upd.chat, StrfDate(t)),
                     upd.chat, StrfDate(t))

\* stats_command's two reads: today's message count and today's active users.
TodayMessages(d, chat, today) ==
    COALESCE(ScalarSubquery({r.messages_count : r \in
                 {q \in d.group_stats : q.group_id = chat /\ q.date = today}}), 0)

ActiveUsers(d, chat, today) ==
    Cardinality({r \in d.user_activity : r.group_id = chat /\ r.last_message = today})

stats_command(upd, resp, d, t) ==
    IF ChatType(upd.chat) = "private"
    THEN << Reply(StatsPrivateText) >>
    ELSE TryBlock(<< Call("get_chat_member_count", upd.chat, Outcome(resp.call1), <<>>),
                     Call("get_chat_administrators", upd.chat, Outcome(resp.call2), <<>>) >>,
                  StatsText,
                  << ActiveUsers(d, upd.chat, StrfDate(t)),
                     TodayMessages(d, upd.chat, StrfDate(t)) >>,
                  StatsErrorText, resp)

----------------------------------------------------------------------------
(* The state machine *)

NoUpdate == [chat |-> "p1", user |-> "u1", command |-> PlainMessage,
             reply_to |-> NoReply, args |-> "none"]

\* The state once GroupManagerBot.__init__ has run on a machine with no
\* database file yet.
Init ==
    /\ db = init_database([tables |-> {}, group_stats |-> {}, user_activity |-> {}])
    /\ now = 0
    /\ update = NoUpdate
    /\ handler = "init_database"
    /\ calls = << >>
    /\ sent = [k \in Users \X Groups \X Days |-> 0]

RECURSIVE SumOver(_, _)
SumOver(f, S) ==
    IF S = {} THEN 0
    ELSE LET x == CHOOSE y \in S : TRUE IN f[x] + SumOver(f, S \ {x})

Tracked == SumOver(sent, DOMAIN sent)

\* A command handler runs on upd and issues the calls of trace.
Handle(h, upd, trace) ==
    /\ update' = upd
    /\ handler' = h
    /\ calls' = trace
    /\ UNCHANGED <<db, now, sent>>

StartCommandRuns == {<<upd, start_command(upd, resp)>> : upd \in UpdatesOf("start_command"), resp \in OpenResponses}

StartCommand == \E run \in StartCommandRuns :
    /\ Route(run[1]) = "start_command"
    /\ Handle("start_command", run[1], run[2])

HelpCommandRuns == {<<upd, help_command(upd, resp)>> : upd \in UpdatesOf("help_command"), resp \in OpenResponses}

HelpCommand == \E run \in HelpCommandRuns :
    /\ Route(run[1]) = "help_command"
    /\ Handle("help_command", run[1], run[2])

StatsCommand == \E upd \in UpdatesOf("stats_command") :
    \E trace \in {stats_command(upd, resp, db, now) : resp \in OpenResponses} :
        /\ Route(upd) = "stats_command"
        /\ Handle("stats_command", upd, trace)

LockGroupRuns == {<<upd, lock_group(upd, resp)>> : upd \in UpdatesOf("lock_group"), resp \in Responses}

LockGroup == \E run \in LockGroupRuns :
    /\ Route(run[1]) = "lock_group"
    /\ Handle("lock_group", run[1], run[2])

UnlockGroupRuns == {<<upd, unlock_group(upd, resp)>> : upd \in UpdatesOf("unlock_group"), resp \in Responses}

UnlockGroup == \E run \in UnlockGroupRuns :
    /\ Route(run[1]) = "unlock_group"
    /\ Handle("unlock_group", run[1], run[2])

MuteUserRuns == {<<upd, mute_user(upd, resp)>> : upd \in UpdatesOf("mute_user"), resp \in Responses}

MuteUser == \E run \in MuteUserRuns :
    /\ Route(run[1]) = "mute_user"
    /\ Handle("mute_user", run[1], run[2])

UnmuteUserRuns == {<<upd, unmute_user(upd, resp)>> : upd \in UpdatesOf("unmute_user"), resp \in Responses}

UnmuteUser == \E run \in UnmuteUserRuns :
    /\ Route(run[1]) = "unmute_user"
    /\ Handle("unmute_user", run[1], run[2])

BanUserRuns == {<<upd, ban_user(upd, resp)>> : upd \in UpdatesOf("ban_user"), resp \in Responses}

BanUser == \E run \in BanUserRuns :
    /\ Route(run[1]) = "ban_user"
    /\ Handle("ban_user", run[1], run[2])

KickUserRuns == {<<upd, kick_user(upd, resp)>> : upd \in UpdatesOf("kick_user"), resp \in Responses}

KickUser == \E run \in KickUserRuns :
    /\ Route(run[1]) = "kick_user"
    /\ Handle("kick_user", run[1], run[2])

TrackActivity == \E upd \in UpdatesOf("track_activity") :
    /\ Route(upd) = "track_activity"
    /\ ChatType(upd.chat) # "private" => Tracked < MaxMsgs
    /\ update' = upd
    /\ handler' = "track_activity"
    /\ calls' = << >>
    /\ db' = track_activity(db, upd, now)
    /\ sent' = IF ChatType(upd.chat) = "private" THEN sent
               ELSE [sent EXCEPT ![<<upd.user, upd.chat, StrfDate(now)>>] = @ + 1]
    /\ UNCHANGED now

\* The clock moves on.
AdvanceClock ==
    /\ now < MaxClock
    /\ now' = now + 1
    /\ UNCHANGED <<db, update, handler, calls, sent>>

\* The process is started again: __init__ runs init_database on the file
\* the earlier run left.
Restart ==
    /\ db' = init_database(db)
    /\ update' = NoUpdate
    /\ handler' = "init_database"
    /\ calls' = << >>
    /\ UNCHANGED <<now, sent>>

\* The counter store: plain messages and the commands open to everyone.
NextStore ==
    \/ TrackActivity
    \/ StartCommand
    \/ HelpCommand
    \/ StatsCommand
    \/ AdvanceClock
    \/ Restart

SpecStore == Init /\ [][NextStore]_vars

\* The commands: the nine command handlers.
NextGate ==
    \/ StartCommand
    \/ HelpCommand
    \/ StatsCommand
    \/ LockGroup
    \/ UnlockGroup
    \/ MuteUser
    \/ UnmuteUser
    \/ BanUser
    \/ KickUser

SpecGate == Init /\ [][NextGate]_vars

Next == NextStore \/ NextGate

Spec == Init /\ [][Next]_vars

----------------------------------------------------------------------------
(* Vocabulary of the properties *)

GatedHandlers == DOMAIN Text

MutatingApis ==
    {"set_chat_permissions", "restrict_chat_member", "ban_chat_member", "unban_chat_member"}

\* The reply texts that carry the platform error's message, str(e).
ErrorTexts == {Text[h].fail : h \in GatedHandlers} \cup {StatsErrorText}

Replies == {i \in DOMAIN calls : calls[i].api = "reply_text"}

MutatingCalls == {i \in DOMAIN calls : calls[i].api \in MutatingApis}

CallerLookups ==
    {i \in DOMAIN calls : calls[i].api = "get_chat_member" /\ calls[i].target = update.user}

BotLookups ==
    {i \in DOMAIN calls : calls[i].api = "get_chat_member" /\ calls[i].target = "bot"}

CallerPassed == \E i \in CallerLookups : calls[i].result \in {"administrator", "creator"}

BotPassed == \E i \in BotLookups : calls[i].result = "administrator"

LastCall == calls[Len(calls)]

\* The same remote call is in the trace once only.
IssuedOnce(i) ==
    \A j \in DOMAIN calls :
        (calls[j].api = calls[i].api /\ calls[j].target = calls[i].target) => j = i

----------------------------------------------------------------------------
(* C1 *)

\* C1: in a permission-gated handler whose caller lookup returned a status
\* that is neither administrator nor creator, the trace holds exactly one
\* reply, the "Only admins can use this command!" text, and no mutating call.
C1_NonAdminRejected ==
    (handler \in GatedHandlers /\
     \E i \in CallerLookups : calls[i].result \in MemberStatus \ {"administrator", "creator"})
    => /\ Cardinality(Replies) = 1
       /\ LastCall.api = "reply_text" /\ LastCall.text = OnlyAdmins
       /\ MutatingCalls = {}

C1_Witness ==
    /\ handler = "ban_user"
    /\ update.reply_to # NoReply
    /\ \E i \in CallerLookups : calls[i].result = "member"
    /\ Replies # {}

----------------------------------------------------------------------------
(* C2 *)

\* C2: in a privileged handler a mutating call comes only after the caller
\* lookup and then the bot lookup of the same invocation, both returned
\* true; the caller lookup comes before the bot lookup; after a false caller
\* lookup there is no bot lookup; after a false bot lookup the handler ends
\* with its rejection reply and no mutating call.
C2_LookupsBeforeMutation ==
    handler \in GatedHandlers =>
      /\ \A m \in MutatingCalls :
            \E i \in CallerLookups, k \in BotLookups :
               /\ i < k /\ k < m
               /\ calls[i].result \in {"administrator", "creator"}
               /\ calls[k].result = "administrator"
      /\ \A k \in BotLookups : \E i \in CallerLookups : i < k
      /\ ~CallerPassed => BotLookups = {}
      /\ (BotLookups # {} /\ ~BotPassed) =>
            /\ MutatingCalls = {}
            /\ LastCall.api = "reply_text" /\ LastCall.text = Text[handler].need

C2_Witness ==
    /\ handler = "kick_user"
    /\ \E m \in MutatingCalls : calls[m].api = "unban_chat_member"
    /\ \E i \in CallerLookups : calls[i].result = "creator"

----------------------------------------------------------------------------
(* C6 *)

\* C6: when a get_chat_member lookup, for the caller or for the bot, raised
\* a platform error, the invocation issues no mutating call and ends with
\* one reply, the rejection text of the check that failed.
C6_LookupErrorFailsClosed ==
    (\E i \in DOMAIN calls : calls[i].api = "get_chat_member" /\ calls[i].result = Err)
    => /\ MutatingCalls = {}
       /\ Cardinality(Replies) = 1
       /\ LastCall.api = "reply_text"
       /\ LastCall.text = IF CallerPassed THEN Text[handler].need ELSE OnlyAdmins

C6_Witness ==
    /\ handler = "unlock_group"
    /\ \E i \in BotLookups : calls[i].result = Err

----------------------------------------------------------------------------
(* C7 *)

\* C7 as claimed: every failed remote call of a handler, the member-status
\* lookups included, is answered with exactly one reply that carries the
\* platform error's message, and is not issued a second time.
C7_EveryFailureReported ==
    \A i \in DOMAIN calls :
        (calls[i].api # "reply_text" /\ calls[i].result = Err)
        => /\ Cardinality(Replies) = 1
           /\ \A r \in Replies : calls[r].text \in ErrorTexts
           /\ IssuedOnce(i)

\* C7 as amended: a failed count, set-permissions, restrict, ban or unban
\* call is answered with exactly one reply that carries the platform error's
\* message, and is not issued again; a failed member-status lookup is not
\* issued again either and is answered with exactly one reply, the fixed
\* rejection text, which does not carry the error's message.
C7_FailureReportedExceptLookups ==
    \A i \in DOMAIN calls :
        (calls[i].api # "reply_text" /\ calls[i].result = Err)
        => /\ Cardinality(Replies) = 1
           /\ IssuedOnce(i)
           /\ \A r \in Replies :
                 /\ r > i
                 /\ IF calls[i].api = "get_chat_member"
                    THEN calls[r].text \notin ErrorTexts
                    ELSE calls[r].text \in ErrorTexts

C7_Witness ==
    /\ handler = "mute_user"
    /\ \E i \in DOMAIN calls : calls[i].api = "restrict_chat_member" /\ calls[i].result = Err

----------------------------------------------------------------------------
(* C8 *)

\* C8: after /mute @username, not sent as a reply, by an administrator in a
\* group where the bot is an administrator, the trace holds a
\* restrict_chat_member call that revokes the right to send messages.
C8_MuteByUsername ==
    (/\ handler = "mute_user"
     /\ update.args = "@username" /\ update.reply_to = NoReply
     /\ ChatType(update.chat) # "private"
     /\ CallerPassed /\ BotPassed)
    => \E i \in DOMAIN calls :
          calls[i].api = "restrict_chat_member" /\ calls[i].data = <<FALSE>>

----------------------------------------------------------------------------
(* C9 *)

KickTarget == <<update.chat, update.reply_to>>

\* What the platform may hold about the target before the invocation.
BannedBefore == SUBSET {KickTarget}

BanCalls == {i \in DOMAIN calls : calls[i].api = "ban_chat_member"}

UnbanCalls == {i \in DOMAIN calls : calls[i].api = "unban_chat_member"}

\* C9: a /kick that passed both checks and replies to a user issues the ban,
\* and the unban only after a ban that succeeded; the success reply is there
\* only when both succeeded, and then the target is not banned afterwards;
\* when the ban succeeded and the unban failed the "Failed to kick user"
\* reply is sent and the target is banned afterwards.
C9_KickOrder ==
    (/\ handler = "kick_user" /\ update.reply_to # NoReply
     /\ CallerPassed /\ BotPassed)
    => /\ BanCalls # {}
       /\ \A u \in UnbanCalls : \E b \in BanCalls : b < u /\ calls[b].result = Ok
       /\ (\E b \in BanCalls : calls[b].result = Err) => UnbanCalls = {}
       /\ (\E r \in Replies : calls[r].text = Text.kick_user.ok) =>
             /\ \A b \in BanCalls \cup UnbanCalls : calls[b].result = Ok
             /\ UnbanCalls # {}
             /\ \A pre \in BannedBefore :
                   KickTarget \notin ApplyCalls(pre, update.chat, calls)
       /\ (\E u \in UnbanCalls : calls[u].result = Err) =>
             /\ \E r \in Replies : calls[r].text = Text.kick_user.fail
             /\ \A r \in Replies : calls[r].text # Text.kick_user.ok
             /\ \A pre \in BannedBefore :
                   KickTarget \in ApplyCalls(pre, update.chat, calls)

C9_Witness ==
    /\ handler = "kick_user"
    /\ \E b \in BanCalls : calls[b].result = Ok
    /\ \E u \in UnbanCalls : calls[u].result = Err

----------------------------------------------------------------------------
(* Vocabulary of the store properties *)

RECURSIVE SumRows(_, _)
\* The sum of column col over a set of rows.
SumRows(rows, col) ==
    IF rows = {} THEN 0
    ELSE LET r == CHOOSE x \in rows : TRUE IN r[col] + SumRows(rows \ {r}, col)

UserRows(d, u, g) == {r \in d.user_activity : r.user_id = u /\ r.group_id = g}

GroupRows(d, g, day) == {r \in d.group_stats : r.group_id = g /\ r.date = day}

\* user_activity.message_count of user u in group g, 0 without a row.
UserCount(d, u, g) == SumRows(UserRows(d, u, g), "message_count")

\* group_stats.messages_count of group g on a day, 0 without a row.
GroupCount(d, g, day) == SumRows(GroupRows(d, g, day), "messages_count")

SentOn(u, g, day) == sent[<<u, g, day>>]

SentByUser(u, g) == SumOver(sent, {<<u, g, day>> : day \in Days})

SentInGroup(g, day) == SumOver(sent, {<<u, g, day>> : u \in Users})

\* A step that handles an update, as opposed to a clock tick or a restart.
Delivery == handler' # "init_database" /\ now' = now

----------------------------------------------------------------------------
(* C3 *)

\* C3 as claimed: whenever a user sent N > 0 tracked messages in a group on
\* a day, the user's message count for the group is N and the group's total
\* of that day is the sum of what its users sent that day.
C3_CountIsTodaysN ==
    \A u \in Users, g \in Groups, day \in Days :
        SentOn(u, g, day) > 0 =>
            /\ UserCount(db, u, g) = SentOn(u, g, day)
            /\ GroupCount(db, g, day) = SentInGroup(g, day)

\* C3 as amended: the group's total of a day is the sum of what its users
\* sent that day, so N messages of one user contribute exactly N; the user's
\* message count for the group is what the user sent there on all days
\* together, which is N when the user sent nothing there on another day.
C3_CountIsRunningTotal ==
    \A u \in Users, g \in Groups :
        /\ UserCount(db, u, g) = SentByUser(u, g)
        /\ \A day \in Days :
              /\ GroupCount(db, g, day) = SentInGroup(g, day)
              /\ (\A other \in Days \ {day} : SentOn(u, g, other) = 0)
                    => UserCount(db, u, g) = SentOn(u, g, day)

C3_Witness ==
    \E u \in Users, g \in Groups, d1 \in Days, d2 \in Days :
        d1 < d2 /\ SentOn(u, g, d1) >= 1 /\ SentOn(u, g, d2) >= 2

----------------------------------------------------------------------------
(* C4 *)

\* C4: every step that handles a message update of a non-private chat, a
\* command included, raises the sender's message count for the chat and the
\* chat's total of the day by one each.
C4_EveryGroupMessageCounted ==
    [][ (Delivery /\ ChatType(update'.chat) # "private") =>
           /\ UserCount(db', update'.user, update'.chat)
                 = UserCount(db, update'.user, update'.chat) + 1
           /\ GroupCount(db', update'.chat, StrfDate(now))
                 = GroupCount(db, update'.chat, StrfDate(now)) + 1 ]_vars

----------------------------------------------------------------------------
(* C5 *)

\* C5: a step that runs init_database on a store holding both tables leaves
\* the tables and every row of group_stats and user_activity as they were.
C5_InitDatabaseKeepsRows ==
    [][ (handler' = "init_database" /\ now' = now
         /\ {"group_stats", "user_activity"} \subseteq db.tables) =>
           /\ db'.tables = db.tables
           /\ db'.group_stats = db.group_stats
           /\ db'.user_activity = db.user_activity
           /\ init_database(db') = db' ]_vars

C5_Witness ==
    /\ handler = "init_database"
    /\ Cardinality(db.group_stats) >= 2
    /\ Cardinality(db.user_activity) >= 2

----------------------------------------------------------------------------
(* C10 *)

PrimaryKeysUnique ==
    /\ \A r1, r2 \in db.user_activity : KeyOf(r1, UserKey) = KeyOf(r2, UserKey) => r1 = r2
    /\ \A r1, r2 \in db.group_stats : KeyOf(r1, GroupKey) = KeyOf(r2, GroupKey) => r1 = r2

SumsAgree ==
    \A g \in Chats :
        SumRows({r \in db.user_activity : r.group_id = g}, "message_count")
          = SumRows({r \in db.group_stats : r.group_id = g}, "messages_count")

CountersGrow ==
    /\ \A u \in Users, g \in Chats : UserCount(db', u, g) >= UserCount(db, u, g)
    /\ \A g \in Chats, day \in Days : GroupCount(db', g, day) >= GroupCount(db, g, day)

\* C10: in every reachable store, per group the message counts of
\* user_activity add up to the message counts of group_stats over all dates,
\* no table holds two rows with one primary key, and no step lowers a count.
C10_StoreInvariant ==
    /\ [](PrimaryKeysUnique /\ SumsAgree)
    /\ [][CountersGrow]_vars

C10_Witness ==
    \E g \in Groups :
        /\ Cardinality({r \in db.user_activity : r.group_id = g}) >= 2
        /\ Cardinality({r \in db.group_stats : r.group_id = g}) >= 2

============================================================================
